---------------------------- MODULE Spec2Model ----------------------------
(***************************************************************************)
(* Model of dfttopif.parsers: the abstract DFTParser (base.py) and the     *)
(* GPAW parser built on it (gpaw.py).                                      *)
(*                                                                         *)
(* Python values are tagged records, so that values of different Python    *)
(* types can be compared: None, bool, str, int, float, dict, and the pypif *)
(* Value / Property / Scalar objects.  A call either returns a value or    *)
(* raises; the outcome of the last call on the parser is kept in `last`.   *)
(***************************************************************************)
EXTENDS Integers, Sequences, FiniteSets, TLC

VARIABLES
    parser,       \* the parser instance under observation, or NoParser
    db,           \* record id=1 of the shared file 'cit_temp_db.db', or DbAbsent
    last,         \* the last call made on the parser: [op, arg, raw, result]; raw is
                  \* what the call worked from (the undecorated method's value,
                  \* or whether is_converged answered from its cached flag)
    detectCalls,  \* history: invocations of _is_converged() on the instance
    retVals       \* history: the values is_converged() has returned so far

vars == <<parser, db, last, detectCalls, retVals>>

---------------------------------------------------------------------------
(* Bounds of the model *)

\* longest file list handed to a constructor
MaxFiles == 2
\* most invocations of _is_converged() followed on one instance
MaxDetectCalls == 2
\* most atoms in a structure handed to get_composition
MaxAtoms == 5

---------------------------------------------------------------------------
(* Python values *)

None == [kind |-> "None"]
Bool(b) == [kind |-> "bool", b |-> b]
PyTrue == Bool(TRUE)
PyFalse == Bool(FALSE)
Str(s) == [kind |-> "str", s |-> s]
PyInt(n) == [kind |-> "int", n |-> n]
Float(r) == [kind |-> "float", repr |-> r]
List(items) == [kind |-> "list", items |-> items]
\* a dict is a function over the keys the program looks up; a key the dict
\* does not hold maps to Missing, and looking it up raises KeyError
Missing == [kind |-> "missing"]

\* pypif objects: only the fields the parsers set
Scalar(v) == [value |-> v]
Value(scalars, units) == [kind |-> "Value", scalars |-> scalars, units |-> units]
Property(scalars, vectors, units) ==
    [kind |-> "Property", scalars |-> scalars, vectors |-> vectors, units |-> units]
\* Value() with no argument: the content-free marker
EmptyValue == Value(None, None)

\* outcome of a call: a returned value, or a raised exception
Return(v) == [ok |-> TRUE, val |-> v]
Raise(e) == [ok |-> FALSE, exc |-> e]

---------------------------------------------------------------------------
(* Files.  A path is its directory and the '.'-separated parts of its      *)
(* basename, so os.path.basename(f) == "output." + fmt is                  *)
(* parts = <<"output", fmt>> and basename.split('.')[-1] is the last part. *)

Path(d, parts) == [dir |-> d, parts |-> parts]

OutTraj == Path("run", <<"output", "traj">>)
ATraj == Path("run", <<"a", "traj">>)
BTraj == Path("run", <<"b", "traj">>)
OutTxt == Path("run", <<"output", "txt">>)
OldOutTxt == Path("old", <<"output", "txt">>)
ATxt == Path("run", <<"a", "txt">>)
BTxt == Path("run", <<"b", "txt">>)
CTxt == Path("run", <<"c", "txt">>)

AllFiles == {OutTraj, ATraj, BTraj, OutTxt, OldOutTxt, ATxt, BTxt, CTxt}

Formats == {"traj", "txt"}

\* os.path.basename(f).split('.')[-1]
Extension(f) == f.parts[Len(f.parts)]

\* os.path.basename(f) == "output." + fmt
IsNamedOutput(f, fmt) == f.parts = <<"output", fmt>>

\* What ase.io.read(f) does on the file's content: "ok" (an Atoms object is
\* returned), or the exception it raises.  b.traj is no ULM file, old/output.txt
\* and b.txt are text that is no GPAW log, c.txt is not decodable as text.
ReadOutcome(f) ==
    CASE f = BTraj -> "InvalidULMFileError"
      [] f = OldOutTxt -> "OSError"
      [] f = BTxt -> "OSError"
      [] f = CTxt -> "UnicodeDecodeError"
      [] OTHER -> "ok"

\* The chemical symbols of the structure a readable file holds.
SymbolsOf(f) ==
    CASE f = OutTraj -> <<"H", "H">>
      [] f = ATraj -> <<"O", "Fe", "O", "Fe", "O">>
      [] f = OutTxt -> <<"H", "H">>
      [] OTHER -> <<"O", "H", "H">>

\* The calculator parameters stored with the structure (a dict; 'mode' is
\* itself a dict).
Params(mode, h, xc, kpts, spinpol) ==
    [mode |-> mode, h |-> h, xc |-> xc, kpts |-> kpts, spinpol |-> spinpol]
Mode(name, ecut) == [name |-> name, ecut |-> ecut]

ParamsOf(f) ==
    CASE f = OutTraj ->
            Params(Missing, Float("0.18"), Str("BEEF-vdW"), List(<<1, 1, 1>>), Missing)
      [] f = ATraj ->
            Params(Mode(Str("pw"), Float("500.0")), Missing, Missing,
                   List(<<2, 2, 2>>), PyTrue)
      [] f = OutTxt ->
            Params(Mode(Str("lcao"), Missing), Missing, Str("PBE"), Missing, Missing)
      [] OTHER ->
            Params(Mode(Str("pw"), Missing), Missing, Missing, Missing, PyFalse)

\* Number of images read(f, index=':') returns.
ImagesOf(f) == IF f \in {OutTraj, ATxt} THEN 2 ELSE 1

\* Whether the calculator attached to the structure holds forces.
HasForces(f) == f \in {OutTraj, ATraj, OutTxt}

\* atoms.positions / atoms.get_forces(): one row per atom, three columns.
PositionsOf(f) == [i \in 1..Len(SymbolsOf(f)) |-> <<0, i, 2 * i>>]
ForcesOf(f) == [i \in 1..Len(SymbolsOf(f)) |-> <<i, 0, 3 - i>>]

\* ase.io.read(f) on a readable file: the Atoms object, tagged with the file
\* it was read from.
Atoms(f) ==
    [file |-> f, symbols |-> SymbolsOf(f), params |-> ParamsOf(f),
     positions |-> PositionsOf(f), volume |-> 1000]

\* What GpawStdOutputParser.parse yields over the lines of a text file, merged
\* by dict.update: a log carries its version, any other text yields nothing.
LogData(f) ==
    CASE f = OutTxt -> [gpaw_version |-> Str("19.8.1")]
      [] f = ATxt -> [gpaw_version |-> Str("20.1.0")]
      [] OTHER -> [gpaw_version |-> Missing]

\* Sequences of distinct files of length n
RECURSIVE FileListsOfLen(_)
FileListsOfLen(n) ==
    IF n = 0 THEN {<<>>}
    ELSE {Append(s, f) : s \in FileListsOfLen(n - 1), f \in AllFiles}

Range(s) == {s[i] : i \in 1..Len(s)}

FileLists ==
    UNION {{s \in FileListsOfLen(n) : Cardinality(Range(s)) = n} : n \in 0..MaxFiles}

---------------------------------------------------------------------------
(* GpawParser._find_output *)

\* (variant: the two except clauses are missing, so every exception of read
\* leaves the loop)
FindOutputStep_Uncaught(out_file, f, fmt) ==
    IF IsNamedOutput(f, fmt) THEN Return(f)
    ELSE IF Extension(f) = fmt THEN
        CASE ReadOutcome(f) = "ok" ->
                IF out_file # None THEN Raise("InvalidIngesterException")
                ELSE Return(f)
          [] OTHER -> Raise(ReadOutcome(f))
    ELSE Return(out_file)

\* One iteration of the loop over self._files: from the out_file found so far
\* to the out_file after file f, or the exception that leaves the loop.
FindOutputStep(out_file, f, fmt) ==
    IF IsNamedOutput(f, fmt) THEN Return(f)
    ELSE IF Extension(f) = fmt THEN
        CASE ReadOutcome(f) = "ok" ->
                IF out_file # None THEN Raise("InvalidIngesterException")
                ELSE Return(f)
          [] ReadOutcome(f) \in {"InvalidULMFileError", "OSError"} -> Return(out_file)
          [] OTHER -> Raise(ReadOutcome(f))
    ELSE Return(out_file)

RECURSIVE FindOutputFrom(_, _, _, _)
FindOutputFrom(files, fmt, i, out_file) ==
    IF i > Len(files) THEN Return(out_file)
    ELSE LET r == FindOutputStep(out_file, files[i], fmt)
         IN IF r.ok THEN FindOutputFrom(files, fmt, i + 1, r.val) ELSE r

FindOutput(files, fmt) == FindOutputFrom(files, fmt, 1, None)

---------------------------------------------------------------------------
(* GpawParser.__init__ *)

\* (variant: the text log is tried first)
StructureSource_TxtFirst(output_traj, output_txt) ==
    IF output_txt # None THEN output_txt
    ELSE IF output_traj # None THEN output_traj
    ELSE None

\* The file the structure is read from: the trajectory when there is one, else
\* the text log, else none.
StructureSource(output_traj, output_txt) ==
    IF output_traj # None THEN output_traj
    ELSE IF output_txt # None THEN output_txt
    ELSE None

\* _get_mode: self.settings['mode']['name'], 'fd' on KeyError
GetMode(settings) ==
    IF settings.mode = Missing THEN Str("fd")
    ELSE IF settings.mode.name = Missing THEN Str("fd")
    ELSE settings.mode.name

\* with open(self.output_txt) ...: computational_data.update(line) for every
\* parsed line; the dict stays empty when there is no text log
ComputationalData(output_txt) ==
    IF output_txt # None THEN LogData(output_txt) ELSE [gpaw_version |-> Missing]

GpawInstance(files, traj, txt, atoms) ==
    [kind |-> "gpaw", files |-> files, converged |-> None,
     output_traj |-> traj, output_txt |-> txt, atoms |-> atoms,
     computational_data |-> ComputationalData(txt),
     settings |-> atoms.params, calc_mode |-> GetMode(atoms.params)]

\* The whole constructor on a file list: the instance it returns and the
\* record it leaves in cit_temp_db.db, or the exception it raises (before the
\* data base is touched).
GpawInit(files) ==
    LET traj == FindOutput(files, "traj") IN
    IF ~traj.ok THEN traj ELSE
    LET txt == FindOutput(files, "txt") IN
    IF ~txt.ok THEN txt ELSE
    LET src == StructureSource(traj.val, txt.val) IN
    IF src = None THEN Raise("InvalidIngesterException")
    ELSE IF ReadOutcome(src) # "ok" THEN Raise(ReadOutcome(src))
    ELSE Return([parser |-> GpawInstance(files, traj.val, txt.val, Atoms(src)),
                 db |-> Atoms(src)])

---------------------------------------------------------------------------
(* State *)

NoParser == [kind |-> "none"]
DbAbsent == [kind |-> "absent"]

Call(op, arg, raw, result) == [op |-> op, arg |-> arg, raw |-> raw, result |-> result]

NoCall == Call("none", None, None, Return(None))

Init ==
    /\ parser = NoParser
    /\ db = DbAbsent
    /\ last = NoCall
    /\ detectCalls = 0
    /\ retVals = {}

history == <<detectCalls, retVals>>

\* GpawParser(files): on success the instance exists and cit_temp_db.db holds
\* its structure; on an exception there is no instance.
ConstructGpaw ==
    /\ parser = NoParser
    /\ \E files \in FileLists :
        LET r == GpawInit(files) IN
        /\ last' = Call("GpawParser", List(files), None,
                        IF r.ok THEN Return(None) ELSE r)
        /\ parser' = IF r.ok THEN r.val.parser ELSE NoParser
        /\ db' = IF r.ok THEN r.val.db ELSE db
    /\ UNCHANGED history

\* The records a successful GpawParser(files) leaves in cit_temp_db.db
WrittenRows == {GpawInit(files).val.db : files \in {fl \in FileLists : GpawInit(fl).ok}}

\* Another GpawParser is constructed in the same working directory: it
\* removes cit_temp_db.db and writes its own structure as record 1.
ConstructOtherGpaw ==
    /\ \E row \in WrittenRows : db' = row
    /\ UNCHANGED <<parser, last, history>>

---------------------------------------------------------------------------
(* The registries: tag -> name of the method *)

\* DFTParser.get_setting_functions
BaseSettingFunctions ==
    [t \in {"XC Functional", "Relaxed", "Cutoff Energy", "k-Points per Reciprocal Atom",
            "Spin-Orbit Coupling", "DFT+U", "vdW Interactions", "Pseudopotentials",
            "INCAR", "POSCAR"} |->
        CASE t = "XC Functional" -> "get_xc_functional"
          [] t = "Relaxed" -> "is_relaxed"
          [] t = "Cutoff Energy" -> "get_cutoff_energy"
          [] t = "k-Points per Reciprocal Atom" -> "get_KPPRA"
          [] t = "Spin-Orbit Coupling" -> "uses_SOC"
          [] t = "DFT+U" -> "get_U_settings"
          [] t = "vdW Interactions" -> "get_vdW_settings"
          [] t = "Pseudopotentials" -> "get_pp_name"
          [] t = "INCAR" -> "get_incar"
          [] t = "POSCAR" -> "get_poscar"]

\* DFTParser.get_result_functions
BaseResultFunctions ==
    [t \in {"Converged", "Total Energy", "Band Gap Energy", "Pressure",
            "Density of States", "Positions", "Forces", "Total force", "Density",
            "OUTCAR", "Total magnetization", "Stresses", "Number of atoms",
            "Initial volume", "Final volume"} |->
        CASE t = "Converged" -> "is_converged"
          [] t = "Total Energy" -> "get_total_energy"
          [] t = "Band Gap Energy" -> "get_band_gap"
          [] t = "Pressure" -> "get_pressure"
          [] t = "Density of States" -> "get_dos"
          [] t = "Positions" -> "get_positions"
          [] t = "Forces" -> "get_forces"
          [] t = "Total force" -> "get_total_force"
          [] t = "Density" -> "get_density"
          [] t = "OUTCAR" -> "get_outcar"
          [] t = "Total magnetization" -> "get_total_magnetization"
          [] t = "Stresses" -> "get_stresses"
          [] t = "Number of atoms" -> "get_number_of_atoms"
          [] t = "Initial volume" -> "get_initial_volume"
          [] t = "Final volume" -> "get_final_volume"]

\* (variant: a fresh dict holding only the new entry)
DictSet_Fresh(d, k, v) == [t \in {k} |-> v]

\* d[k] = v on a dict: the key is added, or its value replaced
DictSet(d, k, v) == [t \in DOMAIN d \cup {k} |-> IF t = k THEN v ELSE d[t]]

\* GpawParser.get_setting_functions
GpawSettingFunctions ==
    DictSet(DictSet(BaseSettingFunctions, "Grid Spacing", "get_grid_spacing"),
            "Calculation Mode", "get_calc_mode")

\* GpawParser.get_result_functions
GpawResultFunctions == BaseResultFunctions

\* The methods defined in the body of class DFTParser
DFTParserMethods ==
    {"__init__", "generate_from_directory", "get_setting_functions",
     "get_result_functions", "get_name", "get_version_number", "get_output_structure",
     "get_composition", "get_density", "get_positions", "get_cutoff_energy", "uses_SOC",
     "is_relaxed", "get_xc_functional", "is_converged", "get_pp_name", "get_KPPRA",
     "get_U_settings", "get_vdW_settings", "_is_converged", "get_total_energy",
     "get_band_gap", "get_pressure", "get_dos", "get_stresses", "get_total_force",
     "get_total_magnetization", "get_number_of_atoms", "get_initial_volume",
     "get_final_volume"}

\* The methods defined in the body of class GpawParser
GpawParserOwnMethods ==
    {"__init__", "_find_output", "get_name", "get_version_number",
     "get_setting_functions", "get_result_functions", "get_total_energy",
     "get_calc_mode", "get_grid_spacing", "get_xc_functional", "get_cutoff_energy",
     "get_KPPRA", "get_total_magnetization", "get_output_structure", "get_final_volume",
     "get_forces", "get_max_force", "is_relaxed", "uses_SOC", "get_pp_name",
     "get_U_settings", "get_vdW_settings", "is_converged", "get_band_gap",
     "get_pressure", "get_dos", "get_density", "get_stresses", "get_initial_volume",
     "_get_line"}

\* The attributes getattr finds on an instance of the class: its own methods
\* and those it inherits.
MethodsOf(kind) ==
    IF kind = "gpaw" THEN GpawParserOwnMethods \cup DFTParserMethods ELSE DFTParserMethods

SettingFunctions(kind) ==
    IF kind = "gpaw" THEN GpawSettingFunctions ELSE BaseSettingFunctions

ResultFunctions(kind) ==
    IF kind = "gpaw" THEN GpawResultFunctions ELSE BaseResultFunctions

---------------------------------------------------------------------------
(* Value_if_true and the derived computations of DFTParser *)

\* (variant: any value but None counts as true)
Value_if_true_NotNone(r) == IF r # None THEN EmptyValue ELSE None

\* Value_if_true(func)(x), given what func(x) returned
Value_if_true(r) == IF r = PyTrue THEN EmptyValue ELSE None

Symbols == {"F", "Fe", "H", "O"}

\* The characters of a chemical symbol, as code points: Python orders strings
\* by them.
CodePoints(sym) ==
    CASE sym = "F" -> <<70>>
      [] sym = "Fe" -> <<70, 101>>
      [] sym = "H" -> <<72>>
      [] sym = "O" -> <<79>>

\* a < b on strings: at the first differing character, or a a proper prefix of b
RECURSIVE SeqLess(_, _)
SeqLess(a, b) ==
    IF b = <<>> THEN FALSE
    ELSE IF a = <<>> THEN TRUE
    ELSE IF Head(a) # Head(b) THEN Head(a) < Head(b)
    ELSE SeqLess(Tail(a), Tail(b))

StrLess(a, b) == SeqLess(CodePoints(a), CodePoints(b))

\* Counter(symbols): each distinct symbol with the number of times it occurs
Counter(symbols) ==
    [k \in Range(symbols) |-> Cardinality({i \in 1..Len(symbols) : symbols[i] = k})]

\* sorted(keys)
RECURSIVE Sorted(_)
Sorted(keys) ==
    IF keys = {} THEN <<>>
    ELSE LET m == CHOOSE k \in keys : \A j \in keys \ {k} : StrLess(k, j)
         IN <<m>> \o Sorted(keys \ {m})

\* (variant: the count is always appended)
FormulaTerm_AlwaysCount(k, n) == k \o ToString(n)

\* k if counts[k]==1 else '%s%d'%(k,counts[k])
FormulaTerm(k, n) == IF n = 1 THEN k ELSE k \o ToString(n)

\* ''.join(parts)
RECURSIVE Join(_)
Join(parts) == IF parts = <<>> THEN "" ELSE Head(parts) \o Join(Tail(parts))

\* The keys of the counter in the order the formula lists them
CompositionKeys(counts) == Sorted(DOMAIN counts)

\* DFTParser.get_composition, given what get_output_structure() returned
GetComposition(strc) ==
    IF strc = None THEN Raise("AttributeError")
    ELSE LET counts == Counter(strc.symbols)
             keys == CompositionKeys(counts)
         IN Return(Str(Join([i \in 1..Len(keys) |-> FormulaTerm(keys[i], counts[keys[i]])])))

\* atomic masses, rounded
MassOf(sym) ==
    CASE sym = "F" -> 19
      [] sym = "Fe" -> 56
      [] sym = "H" -> 1
      [] sym = "O" -> 16

RECURSIVE SumMasses(_)
SumMasses(symbols) ==
    IF symbols = <<>> THEN 0 ELSE MassOf(Head(symbols)) + SumMasses(Tail(symbols))

\* sum(masses) / volume * 1.660539040, kept as the quotient's two terms
Density(mass, volume) ==
    [kind |-> "float", mass |-> mass, volume |-> volume, factor |-> "1.660539040"]

\* DFTParser.get_density, given what get_output_structure() returned
BaseGetDensity(strc) ==
    IF strc = None THEN Raise("AttributeError")
    ELSE Return(Property(<<Scalar(Density(SumMasses(strc.symbols), strc.volume))>>,
                         None, Str("g/(cm^3)")))

\* (variant: the comprehension is nested the other way round, columns outside)
Wrap_ColumnsOutside(matrix) ==
    IF matrix = <<>> THEN <<>>
    ELSE [j \in 1..Len(matrix[1]) |-> [i \in 1..Len(matrix) |-> Scalar(matrix[i][j])]]

\* [[Scalar(value=x) for x in y] for y in raw]
Wrap(matrix) ==
    [i \in 1..Len(matrix) |-> [j \in 1..Len(matrix[i]) |-> Scalar(matrix[i][j])]]

\* DFTParser.get_positions
GetPositions(strc) ==
    IF strc = None THEN Raise("AttributeError")
    ELSE Return(Property(None, Wrap(strc.positions), None))

\* DFTParser.get_number_of_atoms: an empty structure is falsy, like None
GetNumberOfAtoms(strc) ==
    IF strc = None \/ Len(strc.symbols) = 0 THEN Return(None)
    ELSE Return(Property(<<Scalar(PyInt(Len(strc.symbols)))>>, None, Str("/unit cell")))

\* (variant: 'if not self._converged', which takes a cached False for no
\* cache)
ConvergedCached_Truthy(converged) == converged = PyTrue

\* DFTParser.is_converged: whether the cached flag lets the query skip
\* _is_converged()
ConvergedCached(converged) == converged # None

\* (variant: the result of _is_converged() is returned but not kept)
StoreConverged_Dropped(p, val) == p

\* self._converged = self._is_converged(), once _is_converged() has returned
StoreConverged(p, val) == [p EXCEPT !.converged = val]

---------------------------------------------------------------------------
(* The methods of GpawParser *)

\* GpawParser.get_version_number
GetVersionNumber(p) ==
    IF p.output_txt # None THEN
        IF p.computational_data.gpaw_version = Missing THEN Raise("KeyError")
        ELSE Return(p.computational_data.gpaw_version)
    ELSE Return(None)

\* row.energy / row.fmax of a data base record: the values of the structure
\* that was written, named by the file it was read from
EnergyOf(row) == [kind |-> "float", energy_of |-> row.file]
FmaxOf(row) == [kind |-> "float", fmax_of |-> row.file]

\* GpawParser.get_total_energy: record 1 of cit_temp_db.db as it is now
GetTotalEnergy(d) ==
    IF d = DbAbsent THEN Raise("KeyError")
    ELSE Return(Property(<<Scalar(EnergyOf(d))>>, None, Str("eV")))

\* GpawParser.get_max_force: record 1 of cit_temp_db.db as it is now
GetMaxForce(d) ==
    IF d = DbAbsent THEN Raise("KeyError")
    ELSE IF ~HasForces(d.file) THEN Raise("AttributeError")
    ELSE Return(Property(<<Scalar(FmaxOf(d))>>, None, Str("eV/angstrom")))

\* GpawParser.get_calc_mode
GetCalcMode(p) ==
    CASE p.calc_mode = Str("fd") -> Return(Value(<<Scalar(Str("Finite Difference"))>>, None))
      [] p.calc_mode = Str("lcao") -> Return(Value(<<Scalar(Str("LCAO"))>>, None))
      [] p.calc_mode = Str("pw") -> Return(Value(<<Scalar(Str("Plane-Wave"))>>, None))
      [] OTHER -> Return(None)

\* GpawParser.get_grid_spacing
GetGridSpacing(p) ==
    IF p.calc_mode = Str("fd") THEN
        LET h == IF p.settings.h = Missing THEN Float("0.2") ELSE p.settings.h
        IN Return(Value(<<Scalar(h)>>, Str("angstrom")))
    ELSE Return(None)

\* GpawParser.get_xc_functional
GetXcFunctional(p) ==
    LET xc == IF p.settings.xc = Missing THEN Str("LDA") ELSE p.settings.xc
    IN Return(Value(<<Scalar(xc)>>, None))

\* GpawParser.get_cutoff_energy
GetCutoffEnergy(p) ==
    IF p.calc_mode = Str("pw") THEN
        LET ecut == IF p.settings.mode.ecut = Missing THEN Float("340.0")
                    ELSE p.settings.mode.ecut
        IN Return(Value(<<Scalar(ecut)>>, Str("eV")))
    ELSE Return(None)

\* GpawParser.get_KPPRA: kp[0]*natoms, 0. without 'kpts'
GetKPPRA(p) ==
    LET natoms == Len(p.atoms.symbols)
        v == IF p.settings.kpts = Missing THEN Float("0.0")
             ELSE PyInt(p.settings.kpts.items[1] * natoms)
    IN Return(Value(<<Scalar(v)>>, None))

\* GpawParser.get_total_magnetization
GetTotalMagnetization(p) ==
    IF p.settings.spinpol = Missing THEN Return(None)
    ELSE IF p.settings.spinpol = PyTrue THEN
        Return(Property(<<Scalar([kind |-> "float", magmom_of |-> p.atoms.file])>>,
                        None, Str("Bohr")))
    ELSE Return(None)

\* GpawParser.get_final_volume
GetFinalVolume(p) ==
    Return(Property(<<Scalar(PyInt(p.atoms.volume))>>, None, Str("angstrom^3")))

\* GpawParser.get_forces: None when the calculator holds no forces
GetForces(p) ==
    IF HasForces(p.atoms.file)
    THEN Return(Property(None, Wrap(ForcesOf(p.atoms.file)), Str("eV/angstrom")))
    ELSE Return(None)

\* The undecorated GpawParser.is_relaxed: more than one image in the file
IsRelaxedRaw(p) ==
    LET src == IF p.output_traj # None THEN p.output_traj ELSE p.output_txt
    IN IF ReadOutcome(src) # "ok" THEN Raise(ReadOutcome(src))
       ELSE Return(Bool(ImagesOf(src) > 1))

\* The undecorated GpawParser.uses_SOC
UsesSOCRaw(p) == Return(None)

\* The methods GpawParser overrides with 'return None', but for uses_SOC
\* (decorated), is_converged and get_density (implemented in the base class)
SimplePlaceholders ==
    {"get_pp_name", "get_U_settings", "get_vdW_settings", "get_band_gap",
     "get_pressure", "get_dos", "get_stresses", "get_initial_volume"}

\* (variant: the override is missing and the abstract method of the base
\* class runs)
PlaceholderResult_Abstract(m) == Raise("NotImplementedError")

\* What a placeholder of GpawParser returns
PlaceholderResult(m) == Return(None)

\* GpawParser.is_converged
GpawIsConverged(p) == Return(None)

\* GpawParser.get_density
GpawGetDensity(p) == Return(None)

\* DFTParser.get_total_force
GetTotalForce(p) == Return(None)

\* An abstract method of DFTParser
NotImplemented == Raise("NotImplementedError")

\* get_output_structure(): GpawParser returns self.atoms; for a parser that
\* relies on the base class it is what the subclass supplies (a structure or
\* None), or the base class's NotImplementedError
GetOutputStructure(p) == IF p.kind = "gpaw" THEN Return(p.atoms) ELSE p.strc

---------------------------------------------------------------------------
(* A parser that relies on the methods of DFTParser itself *)

\* The structures a subclass may hand out: those of the readable files
FileStructures == {Atoms(f) : f \in {g \in AllFiles : ReadOutcome(g) = "ok"}}

\* What a subclass's get_output_structure() gives: a structure, None ("if
\* output file not found"), or the base class's NotImplementedError
StructureOutcomes == {Return(a) : a \in FileStructures} \cup {Return(None), NotImplemented}

\* What _is_converged() gives: a boolean, or the base class's
\* NotImplementedError
DetectOutcomes == {Return(PyTrue), Return(PyFalse), NotImplemented}

\* DFTParser.__init__
BaseInstance(files, strc, detect) ==
    [kind |-> "base", files |-> files, converged |-> None, strc |-> strc,
     detect |-> detect]

ConstructBase ==
    /\ parser = NoParser
    /\ \E files \in {s \in FileLists : Len(s) <= 1},
          strc \in StructureOutcomes, detect \in DetectOutcomes :
        /\ parser' = BaseInstance(files, strc, detect)
        /\ last' = Call("DFTParser", List(files), None, Return(None))
    /\ UNCHANGED <<db, history>>

---------------------------------------------------------------------------
(* Queries on the constructed parser *)

\* (variant: the call empties the file list it has gone through)
Query_ConsumingFiles(op, raw, result) ==
    /\ parser # NoParser
    /\ last' = Call(op, None, raw, result)
    /\ parser' = [parser EXCEPT !.files = <<>>]
    /\ UNCHANGED <<db, history>>

\* A call that changes nothing of the instance
Query(op, raw, result) ==
    /\ parser # NoParser
    /\ last' = Call(op, None, raw, result)
    /\ UNCHANGED <<parser, db, history>>

\* A method GpawParser implements and DFTParser leaves abstract
GpawOrAbstract(op, result) ==
    Query(op, None, IF parser.kind = "gpaw" THEN result ELSE NotImplemented)

\* A method only GpawParser has
GpawOnly(op, result) ==
    Query(op, None, IF parser.kind = "gpaw" THEN result ELSE Raise("AttributeError"))

\* strc = self.get_output_structure() at the head of a method of DFTParser:
\* an exception of get_output_structure leaves the method
StructureThen(result) == IF GetOutputStructure(parser).ok THEN result ELSE GetOutputStructure(parser)

\* The structure the method goes on with
Strc == GetOutputStructure(parser).val

CallGetSettingFunctions ==
    /\ parser # NoParser
    /\ Query("get_setting_functions", None, Return(SettingFunctions(parser.kind)))

CallGetResultFunctions ==
    /\ parser # NoParser
    /\ Query("get_result_functions", None, Return(ResultFunctions(parser.kind)))

\* getattr(parser, name) for the name a registry gives a tag: what a consumer
\* that walks the registry does before it can call the capability
ResolveCapability ==
    /\ parser # NoParser
    /\ \E reg \in {SettingFunctions(parser.kind), ResultFunctions(parser.kind)} :
        \E tag \in DOMAIN reg :
            /\ last' = Call("getattr", Str(tag), Str(reg[tag]),
                            IF reg[tag] \in MethodsOf(parser.kind)
                            THEN Return(Str(reg[tag])) ELSE Raise("AttributeError"))
            /\ UNCHANGED <<parser, db, history>>

CallGetName == /\ parser # NoParser
               /\ GpawOrAbstract("get_name", Return(Str("GPAW")))

CallGetVersionNumber == /\ parser # NoParser
                        /\ GpawOrAbstract("get_version_number", GetVersionNumber(parser))

CallGetOutputStructure ==
    /\ parser # NoParser
    /\ Query("get_output_structure", None, GetOutputStructure(parser))

CallGetComposition == /\ parser # NoParser
                      /\ Query("get_composition", None, StructureThen(GetComposition(Strc)))

CallGetPositions == /\ parser # NoParser
                    /\ Query("get_positions", None, StructureThen(GetPositions(Strc)))

CallGetNumberOfAtoms == /\ parser # NoParser
                        /\ Query("get_number_of_atoms", None, StructureThen(GetNumberOfAtoms(Strc)))

\* GpawParser overrides get_density; any other parser runs DFTParser's
CallGetDensity ==
    /\ parser # NoParser
    /\ IF parser.kind = "gpaw"
       THEN Query("get_density", None, GpawGetDensity(parser))
       ELSE Query("get_density", None, StructureThen(BaseGetDensity(Strc)))

CallGetTotalEnergy == /\ parser # NoParser
                      /\ GpawOrAbstract("get_total_energy", GetTotalEnergy(db))

CallGetMaxForce == /\ parser # NoParser
                   /\ GpawOnly("get_max_force", GetMaxForce(db))

CallGetCalcMode == /\ parser # NoParser
                   /\ GpawOnly("get_calc_mode", GetCalcMode(parser))

CallGetGridSpacing == /\ parser # NoParser
                      /\ GpawOnly("get_grid_spacing", GetGridSpacing(parser))

CallGetXcFunctional == /\ parser # NoParser
                       /\ GpawOrAbstract("get_xc_functional", GetXcFunctional(parser))

CallGetCutoffEnergy == /\ parser # NoParser
                       /\ GpawOrAbstract("get_cutoff_energy", GetCutoffEnergy(parser))

CallGetKPPRA == /\ parser # NoParser
                /\ GpawOrAbstract("get_KPPRA", GetKPPRA(parser))

\* GpawParser overrides get_total_magnetization; DFTParser's returns None
CallGetTotalMagnetization ==
    /\ parser # NoParser
    /\ Query("get_total_magnetization", None,
             IF parser.kind = "gpaw" THEN GetTotalMagnetization(parser) ELSE Return(None))

CallGetFinalVolume == /\ parser # NoParser
                      /\ GpawOrAbstract("get_final_volume", GetFinalVolume(parser))

CallGetForces == /\ parser # NoParser
                 /\ GpawOnly("get_forces", GetForces(parser))

CallGetTotalForce == /\ parser # NoParser
                     /\ Query("get_total_force", None, GetTotalForce(parser))

\* A method decorated with Value_if_true: the decorator maps what the
\* undecorated method returned; an exception passes through
Decorated(op, r) ==
    Query(op, IF r.ok THEN r.val ELSE None, IF r.ok THEN Return(Value_if_true(r.val)) ELSE r)

CallIsRelaxed ==
    /\ parser # NoParser
    /\ IF parser.kind = "gpaw" THEN Decorated("is_relaxed", IsRelaxedRaw(parser))
       ELSE Query("is_relaxed", None, NotImplemented)

CallUsesSOC ==
    /\ parser # NoParser
    /\ IF parser.kind = "gpaw" THEN Decorated("uses_SOC", UsesSOCRaw(parser))
       ELSE Query("uses_SOC", None, NotImplemented)

CallPlaceholder ==
    /\ parser # NoParser
    /\ \E m \in SimplePlaceholders : GpawOrAbstract(m, PlaceholderResult(m))

\* is_converged(): GpawParser's override answers None; DFTParser's consults
\* the cached flag, and runs _is_converged() when there is none
CallIsConverged ==
    /\ parser # NoParser
    /\ detectCalls < MaxDetectCalls
    /\ db' = db
    /\ IF parser.kind = "gpaw" THEN
            /\ last' = Call("is_converged", None, None, GpawIsConverged(parser))
            /\ retVals' = retVals \cup {GpawIsConverged(parser).val}
            /\ UNCHANGED <<parser, detectCalls>>
       ELSE IF ConvergedCached(parser.converged) THEN
            LET ret == Property(<<Scalar(parser.converged)>>, None, None) IN
            /\ last' = Call("is_converged", None, Str("cached"), Return(ret))
            /\ retVals' = retVals \cup {ret}
            /\ UNCHANGED <<parser, detectCalls>>
       ELSE
            /\ detectCalls' = detectCalls + 1
            /\ IF parser.detect.ok THEN
                    LET ret == Property(<<Scalar(parser.detect.val)>>, None, None) IN
                    /\ parser' = StoreConverged(parser, parser.detect.val)
                    /\ last' = Call("is_converged", None, Str("detected"), Return(ret))
                    /\ retVals' = retVals \cup {ret}
               ELSE
                    /\ last' = Call("is_converged", None, Str("detected"), parser.detect)
                    /\ UNCHANGED <<parser, retVals>>

Next ==
    \/ ConstructGpaw
    \/ ConstructBase
    \/ CallGetSettingFunctions
    \/ CallGetResultFunctions
    \/ ResolveCapability
    \/ CallGetName
    \/ CallGetVersionNumber
    \/ CallGetOutputStructure
    \/ CallGetComposition
    \/ CallGetPositions
    \/ CallGetNumberOfAtoms
    \/ CallGetDensity
    \/ CallGetTotalEnergy
    \/ CallGetMaxForce
    \/ CallGetCalcMode
    \/ CallGetGridSpacing
    \/ CallGetXcFunctional
    \/ CallGetCutoffEnergy
    \/ CallGetKPPRA
    \/ CallGetTotalMagnetization
    \/ CallGetFinalVolume
    \/ CallGetForces
    \/ CallGetTotalForce
    \/ CallIsRelaxed
    \/ CallUsesSOC
    \/ CallPlaceholder
    \/ CallIsConverged

Spec == Init /\ [][Next]_vars

\* A GpawParser and the queries that read cit_temp_db.db, while other
\* GpawParser instances are constructed in the working directory
NextShared ==
    \/ ConstructGpaw
    \/ ConstructOtherGpaw
    \/ CallGetTotalEnergy
    \/ CallGetMaxForce
    \/ CallGetOutputStructure

SpecShared == Init /\ [][NextShared]_vars

---------------------------------------------------------------------------
(* get_composition over every structure of up to MaxAtoms atoms *)

RECURSIVE SymbolListsOfLen(_)
SymbolListsOfLen(n) ==
    IF n = 0 THEN {<<>>}
    ELSE {Append(s, k) : s \in SymbolListsOfLen(n - 1), k \in Symbols}

SymbolLists == UNION {SymbolListsOfLen(n) : n \in 0..MaxAtoms}

\* An Atoms object with the given chemical symbols
StructureOf(symbols) ==
    [file |-> None, symbols |-> symbols,
     params |-> Params(Missing, Missing, Missing, Missing, Missing),
     positions |-> [i \in 1..Len(symbols) |-> <<0, 0, i>>], volume |-> 1000]

InitComposition ==
    /\ \E symbols \in SymbolLists :
        parser = BaseInstance(<<>>, Return(StructureOf(symbols)), NotImplemented)
    /\ db = DbAbsent
    /\ last = NoCall
    /\ detectCalls = 0
    /\ retVals = {}

NextComposition ==
    \/ CallGetComposition
    \/ CallGetNumberOfAtoms

SpecComposition == InitComposition /\ [][NextComposition]_vars

---------------------------------------------------------------------------
(* Properties *)

\* The parser exists and is a GpawParser
IsGpaw == parser.kind = "gpaw"

\* The last call was GpawParser(files), whatever came of it
ConstructedFrom(files) == last.op = "GpawParser" /\ last.arg = List(files)

\* File f satisfies the predicate of role fmt by itself: it is named
\* output.<fmt>, or it has the extension and ase can read it
MatchesRole(f, fmt) ==
    IsNamedOutput(f, fmt) \/ (Extension(f) = fmt /\ ReadOutcome(f) = "ok")

\* File f is skipped by the search for role fmt
SkippedForRole(f, fmt) ==
    /\ ~IsNamedOutput(f, fmt)
    /\ Extension(f) = fmt => ReadOutcome(f) \in {"InvalidULMFileError", "OSError"}

\* C1 (as stated): over the queries made on an instance, is_converged() has
\* returned at most one value and _is_converged() has run at most once.
C1_DetectionAtMostOnce == detectCalls <= 1 /\ Cardinality(retVals) <= 1

\* C1 (amended): all is_converged() queries that return give the identical
\* value, and once _is_converged() has returned a boolean (True or False) it
\* is never invoked again; only a detection that raises, which stores nothing
\* and returns nothing, is invoked again by the next query.
C1_MemoizedOnceReturned ==
    /\ Cardinality(retVals) <= 1
    /\ detectCalls > 1 => parser.kind = "base" /\ ~parser.detect.ok /\ retVals = {}
    /\ retVals # {} /\ parser.kind = "base" =>
            /\ detectCalls = 1
            /\ retVals = {Property(<<Scalar(parser.detect.val)>>, None, None)}

\* C1 witness: a second query answered from a cached False, one detection run
C1_Witness ==
    /\ parser.kind = "base"
    /\ last.op = "is_converged" /\ last.raw = Str("cached")
    /\ parser.converged = PyFalse
    /\ detectCalls = 1

\* C2: whenever two or more of the files handed to GpawParser match the same
\* role, the constructor raises InvalidIngesterException.
C2_AmbiguityRaises ==
    last.op = "GpawParser" =>
        LET files == last.arg.items IN
        (\E fmt \in Formats :
            Cardinality({f \in Range(files) : MatchesRole(f, fmt)}) >= 2)
        => last.result = Raise("InvalidIngesterException")

C4_RegistrySuperset ==
    /\ IsGpaw /\ last.op = "get_setting_functions" =>
        /\ DOMAIN BaseSettingFunctions \subseteq DOMAIN last.result.val
        /\ DOMAIN last.result.val \ DOMAIN BaseSettingFunctions
                = {"Grid Spacing", "Calculation Mode"}
    /\ IsGpaw /\ last.op = "get_result_functions" =>
        /\ DOMAIN BaseResultFunctions \subseteq DOMAIN last.result.val
        /\ DOMAIN last.result.val \ DOMAIN BaseResultFunctions = {}

\* C4 witness: a GpawParser returned its settings registry, new tags included
C4_Witness ==
    /\ IsGpaw /\ last.op = "get_setting_functions"
    /\ last.result.val["Grid Spacing"] = "get_grid_spacing"
    /\ last.result.val["XC Functional"] = "get_xc_functional"

\* C5: on a GpawParser, the name every registry tag maps to resolves to a
\* method of the parser.
C5_EveryTagResolves == IsGpaw /\ last.op = "getattr" => last.result.ok

\* The capabilities GPAW does not implement
Unimplemented ==
    {"uses_SOC", "get_pp_name", "get_U_settings", "get_vdW_settings", "is_converged",
     "get_band_gap", "get_pressure", "get_dos", "get_density", "get_stresses",
     "get_initial_volume", "get_total_force"}

RoleOrder ==
    IsGpaw =>
        /\ parser.output_traj # None /\ parser.output_txt # None
                => parser.atoms.file = parser.output_traj
        /\ parser.output_traj = None /\ parser.output_txt # None
                => parser.atoms.file = parser.output_txt

CountOf(sym, symbols) == Cardinality({i \in 1..Len(symbols) : symbols[i] = sym})
TermOf(sym, symbols) ==
    CASE CountOf(sym, symbols) = 0 -> ""
      [] CountOf(sym, symbols) = 1 -> sym
      [] OTHER -> sym \o ToString(CountOf(sym, symbols))
FormulaOf(symbols) ==
    TermOf("F", symbols) \o TermOf("Fe", symbols) \o TermOf("H", symbols)
        \o TermOf("O", symbols)

\* C8: get_composition() returns the distinct symbols in lexical order, bare
\* when the count is one and followed by the count otherwise, whatever the
\* order of the atoms; [H, H] gives "H2", [Fe, Fe, O, O, O] gives "Fe2O3".
C8_Composition ==
    parser.kind = "base" /\ last.op = "get_composition" /\ parser.strc.ok =>
        LET symbols == parser.strc.val.symbols IN
        /\ last.result = Return(Str(FormulaOf(symbols)))
        /\ symbols = <<"H", "H">> => last.result.val.s = "H2"
        /\ CountOf("Fe", symbols) = 2 /\ CountOf("O", symbols) = 3 /\ Len(symbols) = 5
                => last.result.val.s = "Fe2O3"

\* C8 witness: the formula of O, Fe, O, Fe, O
C8_Witness ==
    /\ parser.kind = "base" /\ last.op = "get_composition"
    /\ parser.strc.val.symbols = <<"O", "Fe", "O", "Fe", "O">>
    /\ last.result = Return(Str("Fe2O3"))

\* C9: when get_output_structure() returns None, DFTParser.get_density()
\* returns None.
C9_DensityAbsentWithoutStructure ==
    parser.kind = "base" /\ last.op = "get_density" /\ parser.strc = Return(None)
        => last.result = Return(None)

\* C10: a method decorated with Value_if_true returns the empty Value exactly
\* when the undecorated method returned True, and None when it returned False
\* or None.
C10_PresenceAdapter ==
    IsGpaw /\ last.op \in {"is_relaxed", "uses_SOC"} /\ last.result.ok =>
        /\ last.raw \in {PyTrue, PyFalse, None}
        /\ last.raw = PyTrue <=> last.result.val = EmptyValue
        /\ last.raw \in {PyFalse, None} => last.result.val = None

\* C10 witness: is_relaxed on a single-image trajectory, False mapped to None
C10_Witness ==
    /\ IsGpaw /\ last.op = "is_relaxed"
    /\ last.raw = PyFalse /\ last.result = Return(None)

\* C11 (as stated): the first is_converged() query on any parser instance
\* leaves the instance Computed, a boolean stored after exactly one run of the
\* detection routine.
C11_FirstQueryComputes ==
    parser # NoParser /\ last.op = "is_converged" =>
        parser.converged \in {PyTrue, PyFalse} /\ detectCalls = 1

\* C11 (amended): on a parser that answers with DFTParser.is_converged, a
\* query in Unknown runs _is_converged() once; when that returns a boolean the
\* instance becomes Computed with that boolean stored, and when it raises the
\* instance stays Unknown.  A GpawParser, whose override never consults the
\* cache, stays Unknown.  A Computed instance has run exactly one detection,
\* and no step changes its stored value or moves it back to Unknown.
C11_CacheStateMachine ==
    [][/\ parser.kind = "base" /\ parser.converged # None =>
            /\ detectCalls = 1
            /\ parser.converged = parser.detect.val
            /\ parser'.converged = parser.converged
            /\ detectCalls' = detectCalls
       /\ parser.kind = "base" /\ parser.converged = None =>
            /\ parser'.converged # None => detectCalls' = detectCalls + 1
            /\ detectCalls' # detectCalls =>
                    /\ detectCalls' = detectCalls + 1
                    /\ last'.op = "is_converged"
                    /\ IF parser.detect.ok
                       THEN /\ parser'.converged = parser.detect.val
                            /\ parser'.converged \in {PyTrue, PyFalse}
                       ELSE parser'.converged = None
       /\ parser.kind = "gpaw" =>
            parser'.converged = None /\ detectCalls' = detectCalls]_vars

\* C11 witness: the first query on a DFTParser instance has just run the
\* detection and stored its True
C11_Witness ==
    /\ parser.kind = "base"
    /\ last.op = "is_converged" /\ last.raw = Str("detected")
    /\ parser.converged = PyTrue
    /\ detectCalls = 1

\* Reading the scalar values of a list of vectors back into a matrix
ValuesOf(vectors) ==
    [i \in 1..Len(vectors) |-> [j \in 1..Len(vectors[i]) |-> vectors[i][j].value]]

\* The list of vectors holds matrix m: as many vectors as m has rows, vector i
\* as long as row i, and its j-th scalar holding m[i][j]
Encodes(vectors, m) ==
    /\ Len(vectors) = Len(m)
    /\ \A i \in 1..Len(m) :
            /\ Len(vectors[i]) = Len(m[i])
            /\ \A j \in 1..Len(m[i]) : vectors[i][j] = Scalar(m[i][j])
    /\ ValuesOf(vectors) = m

\* C12: the vectors get_positions() returns hold the positions of the output
\* structure, and the vectors get_forces() returns hold the forces of the
\* structure read at construction, row by row and column by column, so the
\* scalar values read back are the original matrix.
C12_MatrixRoundTrip ==
    /\ parser # NoParser /\ last.op = "get_positions" /\ last.result.ok =>
            Encodes(last.result.val.vectors, Strc.positions)
    /\ IsGpaw /\ last.op = "get_forces" /\ last.result # Return(None) =>
            /\ last.result.ok
            /\ Encodes(last.result.val.vectors, ForcesOf(parser.atoms.file))

\* C12 witness: the forces of the five atoms of a.traj, the last row read
\* back as (5, 0, -2)
C12_Witness ==
    /\ IsGpaw /\ last.op = "get_forces" /\ last.result.ok
    /\ last.result.val # None
    /\ Len(last.result.val.vectors) = 5
    /\ ValuesOf(last.result.val.vectors)[5] = <<5, 0, -2>>

\* File f is a candidate for role fmt whose content read() cannot take
Unreadable(f, fmt) == Extension(f) = fmt /\ ReadOutcome(f) # "ok"

\* The files without the unreadable candidates of role fmt, in the same order
WithoutUnreadable(files, fmt) == SelectSeq(files, LAMBDA f : ~Unreadable(f, fmt))

\* C13: in _find_output, a candidate whose content cannot be read as the
\* format is a non-match: it is never the file returned, and the search gives
\* what it gives on the same files without the unreadable candidates, so such
\* a file neither counts toward ambiguity nor makes the search fail.
C13_UnreadableIsNonMatch ==
    last.op = "GpawParser" =>
        \A fmt \in Formats :
            LET files == last.arg.items
                r == FindOutput(files, fmt)
            IN /\ r.ok /\ r.val # None => ~Unreadable(r.val, fmt)
               /\ r = FindOutput(WithoutUnreadable(files, fmt), fmt)

\* The orderings of a list of files
Orderings(files) ==
    {[i \in 1..Len(files) |-> files[p[i]]] : p \in Permutations(1..Len(files))}

\* C14: for each role, _find_output gives the same outcome (the file chosen,
\* None, or the exception raised) on every ordering of the files the parser
\* was given.
C14_OrderIndependent ==
    last.op = "GpawParser" =>
        \A fmt \in Formats : \A other \in Orderings(last.arg.items) :
            FindOutput(other, fmt) = FindOutput(last.arg.items, fmt)

\* C15: once a parser is constructed, every step leaves its kind, file list,
\* resolved trajectory and text log, structure, settings and calculation mode
\* as they are; the only field a step changes is the convergence memo, once,
\* from None to a boolean, in an is_converged() query.  Every call of
\* get_setting_functions() / get_result_functions() returns the one mapping
\* of the parser's class.
C15_ReadOnlyQueries ==
    [][/\ parser # NoParser =>
            /\ parser' = [parser EXCEPT !.converged = parser'.converged]
            /\ parser' # parser =>
                    /\ parser.converged = None
                    /\ parser'.converged \in {PyTrue, PyFalse}
                    /\ last'.op = "is_converged"
       /\ last'.op = "get_setting_functions" =>
            last'.result = Return(SettingFunctions(parser.kind))
       /\ last'.op = "get_result_functions" =>
            last'.result = Return(ResultFunctions(parser.kind))]_vars

\* C15 witness: a registry query on a DFTParser instance that differs from
\* the instance as constructed in the stored memo only
C15_Witness ==
    /\ parser.kind = "base"
    /\ parser.files # <<>>
    /\ last.op = "get_setting_functions"
    /\ last.result = Return(BaseSettingFunctions)
    /\ parser.converged = PyFalse
    /\ parser = [BaseInstance(parser.files, parser.strc, parser.detect)
                    EXCEPT !.converged = PyFalse]

\* C16: whatever other GpawParser instances were constructed since this one,
\* get_total_energy() and get_max_force() give the energy and the maximum
\* force of the structure this instance read at its own construction.
C16_InstanceIsolation ==
    /\ IsGpaw /\ last.op = "get_total_energy" =>
            last.result = GetTotalEnergy(parser.atoms)
    /\ IsGpaw /\ last.op = "get_max_force" =>
            last.result = GetMaxForce(parser.atoms)

===========================================================================
